---- MODULE Spec2Model ----
(***************************************************************************)
(* PsalmSlides: the verse normalizer (grab_psalm), the slide writer        *)
(* (PsalmWriter.write_psalm), the worker pool of main.py and the upload    *)
(* loop of push_psalm_files.py.                                            *)
(*                                                                         *)
(* Text is a sequence of characters; a character is a one-character        *)
(* string, except the non-ASCII ones, which carry a name: "EMDASH" for the *)
(* em dash, "sup0".."sup9", "supa", "supb" for the superscript glyphs and  *)
(* "uuml" for a letter outside a-z, A-Z.                                   *)
(***************************************************************************)
EXTENDS Integers, Sequences, FiniteSets, TLC

\* ------------------------------------------------------------------------
\* Character classes of the regular expressions and of str.strip
\* ------------------------------------------------------------------------

Digits == {"0", "1", "2", "3", "4", "5", "6", "7", "8", "9"}

AsciiLetters ==
    {"a", "b", "c", "d", "e", "f", "g", "h", "i", "j", "k", "l", "m",
     "n", "o", "p", "q", "r", "s", "t", "u", "v", "w", "x", "y", "z",
     "A", "B", "C", "D", "E", "F", "G", "H", "I", "J", "K", "L", "M",
     "N", "O", "P", "Q", "R", "S", "T", "U", "V", "W", "X", "Y", "Z"}

\* [a-zA-Z] of the break-dash expression
IsAsciiLetter(c) == c \in AsciiLetters

\* \d
IsDigit(c) == c \in Digits

\* \w : letters of any alphabet, digits and the underscore
IsWord(c) == c \in AsciiLetters \cup Digits \cup {"_", "uuml"}

\* the whitespace str.strip removes
IsSpace(c) == c = " "

\* ------------------------------------------------------------------------
\* String primitives
\* ------------------------------------------------------------------------

RECURSIVE LStrip(_)
LStrip(s) == IF s # <<>> /\ IsSpace(Head(s)) THEN LStrip(Tail(s)) ELSE s

RECURSIVE RStrip(_)
RStrip(s) ==
    IF s # <<>> /\ IsSpace(s[Len(s)]) THEN RStrip(SubSeq(s, 1, Len(s) - 1)) ELSE s

\* str.strip()
strip(s) == RStrip(LStrip(s))

\* s[i:].startswith(p), i counted from 1
StartsAt(s, i, p) ==
    /\ i + Len(p) - 1 <= Len(s)
    /\ SubSeq(s, i, i + Len(p) - 1) = p

startswith(s, p) == StartsAt(s, 1, p)

endswith(s, p) == Len(p) <= Len(s) /\ StartsAt(s, Len(s) - Len(p) + 1, p)

\* c in s
Contains(s, c) == \E i \in 1..Len(s) : s[i] = c

\* str.replace(old, ""): every non-overlapping occurrence, leftmost first
RECURSIVE RemoveAllFrom(_, _, _)
RemoveAllFrom(s, i, old) ==
    IF i > Len(s) THEN <<>>
    ELSE IF old # <<>> /\ StartsAt(s, i, old)
         THEN RemoveAllFrom(s, i + Len(old), old)
         ELSE <<s[i]>> \o RemoveAllFrom(s, i + 1, old)

RemoveAll(s, old) == RemoveAllFrom(s, 1, old)

\* str.split("/")
RECURSIVE SplitFrom(_, _, _)
SplitFrom(s, i, cur) ==
    IF i > Len(s) THEN <<cur>>
    ELSE IF s[i] = "/" THEN <<cur>> \o SplitFrom(s, i + 1, <<>>)
         ELSE SplitFrom(s, i + 1, Append(cur, s[i]))

split(s) == SplitFrom(s, 1, <<>>)

\* ------------------------------------------------------------------------
\* Superscript table
\* ------------------------------------------------------------------------

superscript_lut(c) ==
    CASE c = "0" -> "sup0" [] c = "1" -> "sup1" [] c = "2" -> "sup2"
      [] c = "3" -> "sup3" [] c = "4" -> "sup4" [] c = "5" -> "sup5"
      [] c = "6" -> "sup6" [] c = "7" -> "sup7" [] c = "8" -> "sup8"
      [] c = "9" -> "sup9" [] c = "a" -> "supa" [] c = "b" -> "supb"

DigitChar(d) ==
    CASE d = 0 -> "0" [] d = 1 -> "1" [] d = 2 -> "2" [] d = 3 -> "3"
      [] d = 4 -> "4" [] d = 5 -> "5" [] d = 6 -> "6" [] d = 7 -> "7"
      [] d = 8 -> "8" [] d = 9 -> "9"

\* the text of the verse-number span of the n-th verse
RECURSIVE verse_number_of(_)
verse_number_of(n) ==
    IF n < 10 THEN <<DigitChar(n)>>
    ELSE Append(verse_number_of(n \div 10), DigitChar(n % 10))

\* ------------------------------------------------------------------------
\* grab_psalm, one verse: the regular expressions
\* ------------------------------------------------------------------------

SelaCue == <<"[", "S", "e", "l", "a", "]">>

ZwischenspielHead ==
    <<"[", "Z", "w", "i", "s", "c", "h", "e", "n", "s", "p", "i", "e", "l">>

ZwischenspielTail == <<" ", "S", "e", "l", "a", "]">>

AllDigits(s, i, j) == \A k \in i..j : IsDigit(s[k])

\* length of the match of (/$)|(\d+$)|(\[Sela])|(\[Zwischenspiel. Sela])$
\* at position i, 0 when there is none; only the last alternative and the
\* first two are anchored at the end
AnnotationMatch(s, i) ==
    IF s[i] = "/" /\ i = Len(s) THEN 1
    ELSE IF AllDigits(s, i, Len(s)) THEN Len(s) - i + 1
    ELSE IF StartsAt(s, i, SelaCue) THEN Len(SelaCue)
    ELSE IF /\ StartsAt(s, i, ZwischenspielHead)
            /\ StartsAt(s, i + Len(ZwischenspielHead) + 1, ZwischenspielTail)
            /\ i + Len(ZwischenspielHead) + Len(ZwischenspielTail) = Len(s)
         THEN Len(s) - i + 1
    ELSE 0

RECURSIVE SubAnnotationsFrom(_, _)
SubAnnotationsFrom(s, i) ==
    IF i > Len(s) THEN <<>>
    ELSE IF AnnotationMatch(s, i) > 0
         THEN SubAnnotationsFrom(s, i + AnnotationMatch(s, i))
         ELSE <<s[i]>> \o SubAnnotationsFrom(s, i + 1)

\* one pass of the preprocessing loop: re.sub(...).strip()
StripPass(s) == strip(SubAnnotationsFrom(s, 1))

\* for _ in range(3)
StripAnnotations(s) == StripPass(StripPass(StripPass(s)))

\* re.sub(r"(?<![a-zA-Z])-(?![a-zA-Z])", EMDASH, s)
ReplaceBreakDashes(s) ==
    [i \in 1..Len(s) |->
        IF /\ s[i] = "-"
           /\ (i = 1 \/ ~IsAsciiLetter(s[i - 1]))
           /\ (i = Len(s) \/ ~IsAsciiLetter(s[i + 1]))
        THEN "EMDASH" ELSE s[i]]

\* re.findall(r"\((\w+)\)$", s): <<>> when nothing matches, else <<group 1>>
FindTrailingLetter(s) ==
    LET n == Len(s)
        starts == {i \in 1..n : /\ s[i] = "("
                                /\ i + 1 <= n - 1
                                /\ s[n] = ")"
                                /\ \A k \in (i + 1)..(n - 1) : IsWord(s[k])}
    IN IF starts = {} THEN <<>>
       ELSE <<SubSeq(s, (CHOOSE i \in starts : TRUE) + 1, n - 1)>>

\* end of the match of \([^()]*\) at position i, 0 when there is none
ParenMatchEnd(s, i) ==
    LET ends == {j \in (i + 1)..Len(s) :
                    /\ s[j] = ")"
                    /\ \A k \in (i + 1)..(j - 1) : s[k] \notin {"(", ")"}}
    IN IF s[i] = "(" /\ ends # {} THEN CHOOSE j \in ends : TRUE ELSE 0

\* re.sub(r'(?<!^)\([^()]*\)', lambda m: m.group(0)[1:-1], s)
RECURSIVE FlattenParensFrom(_, _)
FlattenParensFrom(s, i) ==
    IF i > Len(s) THEN <<>>
    ELSE IF i > 1 /\ ParenMatchEnd(s, i) > 0
         THEN SubSeq(s, i + 1, ParenMatchEnd(s, i) - 1)
                 \o FlattenParensFrom(s, ParenMatchEnd(s, i) + 1)
         ELSE <<s[i]>> \o FlattenParensFrom(s, i + 1)

FlattenParens(s) == FlattenParensFrom(s, 1)

\* the least j >= from with s[j] = "]", 0 when there is none
NextClose(s, from) ==
    LET js == {j \in from..Len(s) : s[j] = "]"}
    IN IF js = {} THEN 0 ELSE CHOOSE j \in js : \A k \in js : j <= k

\* re.sub(r"\[.+?]", "", s): every bracketed span with at least one character
RECURSIVE CutBracketSpansFrom(_, _)
CutBracketSpansFrom(s, i) ==
    IF i > Len(s) THEN <<>>
    ELSE IF s[i] = "[" /\ NextClose(s, i + 2) > 0
         THEN CutBracketSpansFrom(s, NextClose(s, i + 2) + 1)
         ELSE <<s[i]>> \o CutBracketSpansFrom(s, i + 1)

CutBracketSpans(s) == CutBracketSpansFrom(s, 1)

\* re.sub(r"^.+?]", "", s): the text up to the first "]" after the first character
CutUpToClose(s) ==
    IF NextClose(s, 2) > 0 THEN SubSeq(s, NextClose(s, 2) + 1, Len(s)) ELSE s

\* s.replace("[", "").replace("]", "")
RemoveBrackets(s) == SelectSeq(s, LAMBDA c : c \notin {"[", "]"})

\* ------------------------------------------------------------------------
\* grab_psalm, one verse: the stages of the loop body
\* ------------------------------------------------------------------------

\* all_after_verse_number: the text after the verse-number span, stripped
all_after_verse_number(element_text) == strip(element_text)

\* verse_text_raw after the preprocessing loop and the break-dash replacement
Preprocess(raw) == ReplaceBreakDashes(StripAnnotations(raw))

\* ps119_letter is <<>> for None and <<letter>> otherwise
WithCarriedLetter(verse_text, letter) ==
    IF letter # <<>> THEN <<"(">> \o letter[1] \o <<")", " ">> \o verse_text
    ELSE verse_text

\* the hebrew-letter block of psalm 119: the text and the carry after it
Ps119Step(ps, n, verse_text, letter) ==
    IF ps = 119 /\ n # 1
    THEN LET t == WithCarriedLetter(verse_text, letter)
             match == FindTrailingLetter(t)
         IN IF match # <<>>
            THEN [text |-> strip(RemoveAll(t, <<"(">> \o match[1] \o <<")">>)),
                  letter |-> <<match[1]>>]
            ELSE [text |-> t, letter |-> <<>>]
    ELSE [text |-> verse_text, letter |-> letter]

\* HeaderStep with the flag tested in its first branch only
HeaderStepCloseUnguarded(verse_text, search) ==
    IF search /\ startswith(verse_text, <<"[">>)
    THEN IF endswith(verse_text, <<"]">>)
         THEN [skip |-> TRUE, text |-> verse_text, search |-> FALSE]
         ELSE IF ~Contains(verse_text, "]")
         THEN [skip |-> TRUE, text |-> verse_text, search |-> search]
         ELSE [skip |-> FALSE, text |-> strip(CutBracketSpans(verse_text)),
               search |-> FALSE]
    ELSE IF Contains(verse_text, "]")
    THEN IF endswith(verse_text, <<"]">>)
         THEN [skip |-> TRUE, text |-> verse_text, search |-> FALSE]
         ELSE [skip |-> FALSE, text |-> strip(CutUpToClose(verse_text)),
               search |-> FALSE]
    ELSE [skip |-> FALSE, text |-> verse_text, search |-> search]

\* the psalm-purpose block: whether the verse is skipped (continue), the text
\* and the flag after it
HeaderStep(verse_text, search) ==
    IF search /\ startswith(verse_text, <<"[">>)
    THEN IF endswith(verse_text, <<"]">>)
         THEN [skip |-> TRUE, text |-> verse_text, search |-> FALSE]
         ELSE IF ~Contains(verse_text, "]")
         THEN [skip |-> TRUE, text |-> verse_text, search |-> search]
         ELSE [skip |-> FALSE, text |-> strip(CutBracketSpans(verse_text)),
               search |-> FALSE]
    ELSE IF search /\ Contains(verse_text, "]")
    THEN IF endswith(verse_text, <<"]">>)
         THEN [skip |-> TRUE, text |-> verse_text, search |-> FALSE]
         ELSE [skip |-> FALSE, text |-> strip(CutUpToClose(verse_text)),
               search |-> FALSE]
    ELSE [skip |-> FALSE, text |-> verse_text, search |-> search]

Superscript(verse_number) ==
    [k \in 1..Len(verse_number) |-> superscript_lut(verse_number[k])]

\* verse_lines: the text without brackets, split at "/", each line stripped,
\* the first one stamped with the superscript verse number
VerseLines(verse_text, verse_number) ==
    LET parts == split(RemoveBrackets(verse_text))
        lines == [k \in 1..Len(parts) |-> strip(parts[k])]
    IN [lines EXCEPT ![1] = Superscript(verse_number) \o <<" ">> \o lines[1]]

\* one iteration of the verse loop on the n-th verse element
NormalizeVerse(ps, n, element_text, search, letter) ==
    LET raw == Preprocess(all_after_verse_number(element_text))
        p == Ps119Step(ps, n, raw, letter)
        h == HeaderStep(FlattenParens(p.text), search)
    IN [skip |-> h.skip,
        lines |-> IF h.skip THEN <<>> ELSE VerseLines(h.text, verse_number_of(n)),
        search |-> h.search,
        letter |-> p.letter]

\* ------------------------------------------------------------------------
\* State
\* ------------------------------------------------------------------------

VARIABLES
    \* grab_psalm
    psalm,                      \* the psalm number
    verses,                     \* the texts of the verse elements looped over so far
    search_for_verse_purpose,
    ps119_letter,               \* <<>> for None, <<letter>> otherwise
    verse_objects,
    grab_pc,                    \* "idle", "fetch", "loop", "returned", "ConnectionError", "ValueError"
    fetched_parts,              \* size of the markup looped over so far
    \* the preprocessing loop of one verse, pass by pass
    stripped_text,              \* all_after_verse_number's result for the verse
    verse_text_raw,
    strip_pass,
    \* PsalmWriter.write_psalm
    pw,                         \* the PsalmWriter object
    prs,                        \* the presentation: the template's geometry and the slides
    loop_i,                     \* i of the verse loop: the number of verses written
    slide,                      \* index in prs.slides of the slide written to (0: none yet)
    cur_p,                      \* index of the paragraph p in that slide's body
    write_pc,                   \* "idle", "start", "loop", "saved"
    \* __main__ of main.py: process_map(func, range(1, 151), ...)
    failing,                    \* the psalms whose process_psalm raises
    futures,                    \* psalm -> "pending", "running", "done", "failed", "cancelled"
    printed,                    \* the psalms an error message was printed for
    pptx_files,                 \* the psalms whose file was saved
    result_idx,                 \* the psalm whose result the main process waits for
    pool_pc,                    \* "idle", "start", "map", "raised", "returned", "exited"
    \* main of push_psalm_files.py
    files,                      \* the server's listing: files[k] is the name of the file with id k
    local_files,                \* the names that exist in the working directory
    psalm_files,                \* the ids of the listed Psalm_*.pptx files, sorted by name
    file_idx,                   \* position of the loop in psalm_files
    deleted,                    \* id -> number of DELETE requests the server carried out
    delete_returned,            \* the ids delete_file returned for
    upload_calls,               \* id -> number of calls of upload_file
    uploaded,                   \* id -> number of POST requests the server carried out for its name
    push_pc                     \* "idle", "start", "loop", "returned", "crashed"

grabVars == <<psalm, verses, search_for_verse_purpose, ps119_letter, verse_objects,
              grab_pc, fetched_parts>>

stripVars == <<stripped_text, verse_text_raw, strip_pass>>

writeVars == <<pw, prs, loop_i, slide, cur_p, write_pc>>

poolVars == <<failing, futures, printed, pptx_files, result_idx, pool_pc>>

pushVars == <<files, local_files, psalm_files, file_idx, deleted, delete_returned,
              upload_calls, uploaded, push_pc>>

vars == <<grabVars, stripVars, writeVars, poolVars, pushVars>>

\* ------------------------------------------------------------------------
\* Inputs
\* ------------------------------------------------------------------------

\* total number of markup parts in the verse elements of one psalm
MaxMarkup == 4

\* number of markup parts in the verse whose preprocessing is followed pass by pass
MaxStripParts == 4

\* psalm 119 is the acrostic one; 23 stands for every other psalm
Psalms == {23, 119}

\* what verse elements are made of: a header opening, a header end, a
\* complete bracketed span, a letter, a blank, a line break, a parenthesized
\* letter
VerseParts ==
    {<<"[", "h">>, <<"h", "]">>, <<"[", "h", "]">>, <<"a">>, <<" ">>, <<"/">>,
     <<"(", "A", ")">>}

\* what the annotated end of a verse is made of
AnnotationParts ==
    {<<"a">>, <<" ">>, <<"/">>, <<"1">>, SelaCue,
     ZwischenspielHead \o <<".">> \o ZwischenspielTail}

\* the texts made of exactly k parts
RECURSIVE PartTexts(_, _)
PartTexts(parts, k) ==
    IF k = 0 THEN {<<>>}
    ELSE {p \o t : p \in parts, t \in PartTexts(parts, k - 1)}

\* ------------------------------------------------------------------------
\* grab_psalm
\* ------------------------------------------------------------------------

GrabIdle ==
    /\ psalm = 0
    /\ verses = <<>>
    /\ search_for_verse_purpose = TRUE
    /\ ps119_letter = <<>>
    /\ verse_objects = <<>>
    /\ grab_pc = "idle"
    /\ fetched_parts = 0

GrabInit ==
    /\ psalm \in Psalms
    /\ verses = <<>>
    /\ search_for_verse_purpose = TRUE
    /\ ps119_letter = <<>>
    /\ verse_objects = <<>>
    /\ grab_pc = "fetch"
    /\ fetched_parts = 0

\* response.status_code != 200
GrabRequestFailed ==
    /\ grab_pc = "fetch"
    /\ grab_pc' = "ConnectionError"
    /\ UNCHANGED <<psalm, verses, search_for_verse_purpose, ps119_letter,
                   verse_objects, fetched_parts>>
    /\ UNCHANGED <<stripVars, writeVars, poolVars, pushVars>>

\* the page holds no 'biblehtmlcontent verses' element
GrabNoContent ==
    /\ grab_pc = "fetch"
    /\ grab_pc' = "ValueError"
    /\ UNCHANGED <<psalm, verses, search_for_verse_purpose, ps119_letter,
                   verse_objects, fetched_parts>>
    /\ UNCHANGED <<stripVars, writeVars, poolVars, pushVars>>

\* the page is parsed; verse_objects = [], the flag is set, the letter is None
GrabParsed ==
    /\ grab_pc = "fetch"
    /\ grab_pc' = "loop"
    /\ verse_objects' = <<>>
    /\ search_for_verse_purpose' = TRUE
    /\ ps119_letter' = <<>>
    /\ UNCHANGED <<psalm, verses, fetched_parts>>
    /\ UNCHANGED <<stripVars, writeVars, poolVars, pushVars>>

\* one iteration of "for verse in verses"
ProcessVerse ==
    /\ grab_pc = "loop"
    /\ \E k \in 1..(MaxMarkup - fetched_parts) :
         \E element_text \in PartTexts(VerseParts, k) :
            \E r \in {NormalizeVerse(psalm, Len(verses) + 1, element_text,
                                     search_for_verse_purpose, ps119_letter)} :
               /\ verses' = Append(verses, element_text)
               /\ fetched_parts' = fetched_parts + k
               /\ search_for_verse_purpose' = r.search
               /\ ps119_letter' = r.letter
               /\ verse_objects' = IF r.skip THEN verse_objects
                                   ELSE Append(verse_objects, r.lines)
    /\ UNCHANGED <<psalm, grab_pc>>
    /\ UNCHANGED <<stripVars, writeVars, poolVars, pushVars>>

\* return verse_objects
GrabReturn ==
    /\ grab_pc = "loop"
    /\ grab_pc' = "returned"
    /\ UNCHANGED <<psalm, verses, search_for_verse_purpose, ps119_letter,
                   verse_objects, fetched_parts>>
    /\ UNCHANGED <<stripVars, writeVars, poolVars, pushVars>>

GrabNext ==
    \/ GrabRequestFailed
    \/ GrabNoContent
    \/ GrabParsed
    \/ ProcessVerse
    \/ GrabReturn

\* ------------------------------------------------------------------------
\* The preprocessing loop of one verse (for _ in range(3)), pass by pass
\* ------------------------------------------------------------------------

StripIdle ==
    /\ stripped_text = <<>>
    /\ verse_text_raw = <<>>
    /\ strip_pass = 0

StripInit ==
    /\ \E k \in 0..MaxStripParts :
          stripped_text \in {all_after_verse_number(t) : t \in PartTexts(AnnotationParts, k)}
    /\ verse_text_raw = stripped_text
    /\ strip_pass = 0

StripOnce ==
    /\ strip_pass < 3
    /\ verse_text_raw' = StripPass(verse_text_raw)
    /\ strip_pass' = strip_pass + 1
    /\ UNCHANGED stripped_text
    /\ UNCHANGED <<grabVars, writeVars, poolVars, pushVars>>

StripNext == StripOnce

\* ------------------------------------------------------------------------
\* PsalmWriter: lengths are integers, in units of 1/UnitsPerInch inch, so that
\* every product of point_to_inch is exact
\* ------------------------------------------------------------------------

\* point_to_inch's default dpi
dpi == 96

\* point_to_inch's default point_to_pixel, 1.33, in hundredths
point_to_pixel100 == 133

\* line spacing factors are given in hundredths
UnitsPerInch == 100 * 100 * dpi

\* PsalmWriter.top_margin = 0.05 inches
top_margin == UnitsPerInch \div 20

\* the closing text the last verse is tested for
Halleluja == <<"H", "a", "l", "l", "e", "l", "u", "j", "a", "!">>

\* the text of the italic closing run
HallelujaRun == <<" ", "EMDASH", " ">> \o Halleluja

\* point_to_inch(line_spacing_factor, after) of a writer with this font size
point_to_inch(body_font_size, line_spacing_factor100, after) ==
    (body_font_size * line_spacing_factor100 + after * 100) * point_to_pixel100

\* wrapped_lines: the number of lines longer than the wrap width
wrapped_lines(paragraph_lines, warp) ==
    Cardinality({k \in 1..Len(paragraph_lines) : Len(paragraph_lines[k]) > warp})

\* paragraph_height of one verse
paragraph_height(w, paragraph_lines) ==
    (Len(paragraph_lines) + wrapped_lines(paragraph_lines, w.warp) - 1)
        * point_to_inch(w.body_font_size, w.line_spacing_factor100, 0)
    + point_to_inch(w.body_font_size, 100, w.space_after)

EmptyParagraph == [elements |-> <<>>, level |-> 0]

Run(text, italic) == [kind |-> "run", text |-> text, italic |-> italic]

Break == [kind |-> "br", text |-> <<>>, italic |-> FALSE]

\* add_slide: a slide of layout 0 (title) or 1, its body holding one empty paragraph
NewSlide(title_slide) ==
    [title_slide |-> title_slide, title |-> 0, paragraphs |-> <<EmptyParagraph>>]

\* text_frame._parent.top.inches of a slide's body
BodyTop(presentation, s) ==
    IF presentation.slides[s].title_slide THEN presentation.title_body_top
    ELSE presentation.body_top

\* Overflows without the top margin
OverflowsNoMargin(top, current_text_body_height, height, height_inch) ==
    top + current_text_body_height + height > height_inch

\* the verse does not fit under what the current slide already holds
Overflows(top, current_text_body_height, height, height_inch) ==
    top + top_margin + current_text_body_height + height > height_inch

\* AddLines without the soft line breaks
RECURSIVE AddLinesNoBreak(_, _, _)
AddLinesNoBreak(elements, paragraph_lines, line_idx) ==
    IF line_idx > Len(paragraph_lines) THEN elements
    ELSE AddLinesNoBreak(elements \o <<Run(paragraph_lines[line_idx], FALSE)>>,
                         paragraph_lines, line_idx + 1)

\* "for line_idx, line in enumerate(paragraph_lines)": a run per line, a soft
\* line break after every line but the last
RECURSIVE AddLines(_, _, _)
AddLines(elements, paragraph_lines, line_idx) ==
    IF line_idx > Len(paragraph_lines) THEN elements
    ELSE AddLines(elements \o <<Run(paragraph_lines[line_idx], FALSE)>>
                     \o (IF line_idx < Len(paragraph_lines) THEN <<Break>> ELSE <<>>),
                  paragraph_lines, line_idx + 1)

\* the paragraph after one iteration wrote verse number idx (counted from 0)
\* of n into it
WrittenParagraph(paragraph, paragraph_lines, idx, n) ==
    LET withLines == AddLines(paragraph.elements, paragraph_lines, 1)
        last == paragraph_lines[Len(paragraph_lines)]
    IN [elements |-> IF idx = n - 1 /\ ~endswith(last, Halleluja)
                     THEN Append(withLines, Run(HallelujaRun, TRUE))
                     ELSE withLines,
        level |-> IF idx % 2 = 1 THEN 1 ELSE paragraph.level]

\* total number of lines in the verses of one psalm
MaxPoemLines == 4

\* the lines grab_psalm returns are abstracted to a short one, one longer than
\* the small wrap width, and one that ends with the closing text
WriteLines == {<<"a">>, <<"a", "a", "a">>, Halleluja}

\* __main__: body_font_size=23, line_spacing_factor=1.5*1.2, space_after=12
FontSizes == {23}

LineSpacings100 == {180}

SpaceAfters == {12}

\* wrap=89 in __main__; 2 makes the longer lines of WriteLines wrap
Wraps == {2, 89}

\* the template's slide height and the tops of its two body placeholders
SlideHeights == {UnitsPerInch, 2 * UnitsPerInch}

BodyTops == {0, UnitsPerInch \div 2}

\* the verses of exactly k lines
LineSeqs(k) == [1..k -> WriteLines]

\* the psalms of exactly n lines in all
RECURSIVE PoemsOf(_)
PoemsOf(n) ==
    IF n = 0 THEN {<<>>}
    ELSE UNION {{<<v>> \o rest : v \in LineSeqs(k), rest \in PoemsOf(n - k)} : k \in 1..n}

WriteIdle ==
    /\ pw = [psalm_number |-> 0]
    /\ prs = [slides |-> <<>>]
    /\ loop_i = 0
    /\ slide = 0
    /\ cur_p = 0
    /\ write_pc = "idle"

\* PsalmWriter.__init__ on a presentation opened from the template
WriteInit ==
    /\ \E n \in 0..MaxPoemLines :
         pw \in [psalm_number : {23},
                 body_font_size : FontSizes,
                 line_spacing_factor100 : LineSpacings100,
                 space_after : SpaceAfters,
                 warp : Wraps,
                 height_inch : SlideHeights,
                 current_text_body_height : {0},
                 verses : PoemsOf(n)]
    /\ prs \in [slide_height : {pw.height_inch},
                title_body_top : BodyTops,
                body_top : BodyTops,
                slides : {<<>>},
                saved : {FALSE}]
    /\ loop_i = 0
    /\ slide = 0
    /\ cur_p = 0
    /\ write_pc = "start"

\* write_psalm up to the verse loop: the title slide, its title, its body
WriteTitleSlide ==
    /\ write_pc = "start"
    /\ prs' = [prs EXCEPT !.slides =
                  Append(@, [NewSlide(TRUE) EXCEPT !.title = pw.psalm_number])]
    /\ slide' = Len(prs.slides) + 1
    /\ cur_p' = 1
    /\ pw' = [pw EXCEPT !.current_text_body_height = 0]
    /\ loop_i' = 0
    /\ write_pc' = "loop"
    /\ UNCHANGED <<grabVars, stripVars, poolVars, pushVars>>

\* one iteration of "for i, paragraph_lines in enumerate(self.verses)"
WriteVerse ==
    /\ write_pc = "loop"
    /\ loop_i < Len(pw.verses)
    /\ \E paragraph_lines \in {pw.verses[loop_i + 1]} :
       \E height \in {paragraph_height(pw, pw.verses[loop_i + 1])} :
       \E newSlide \in {Overflows(BodyTop(prs, slide), pw.current_text_body_height,
                                  height, pw.height_inch)} :
       \E slides1 \in {IF newSlide THEN Append(prs.slides, NewSlide(FALSE))
                       ELSE IF loop_i > 0
                       THEN [prs.slides EXCEPT ![slide].paragraphs =
                                Append(@, EmptyParagraph)]
                       ELSE prs.slides} :
          /\ slide' = IF newSlide THEN Len(prs.slides) + 1 ELSE slide
          /\ cur_p' = IF newSlide THEN 1 ELSE Len(slides1[slide].paragraphs)
          /\ pw' = [pw EXCEPT !.current_text_body_height =
                       (IF newSlide THEN 0 ELSE @) + height]
          /\ prs' = [prs EXCEPT !.slides =
                       [slides1 EXCEPT ![slide'].paragraphs[cur_p'] =
                           WrittenParagraph(@, paragraph_lines, loop_i,
                                            Len(pw.verses))]]
    /\ loop_i' = loop_i + 1
    /\ UNCHANGED write_pc
    /\ UNCHANGED <<grabVars, stripVars, poolVars, pushVars>>

\* self.prs.save(...)
WriteSave ==
    /\ write_pc = "loop"
    /\ loop_i = Len(pw.verses)
    /\ prs' = [prs EXCEPT !.saved = TRUE]
    /\ write_pc' = "saved"
    /\ UNCHANGED <<pw, loop_i, slide, cur_p>>
    /\ UNCHANGED <<grabVars, stripVars, poolVars, pushVars>>

WriteNext ==
    \/ WriteTitleSlide
    \/ WriteVerse
    \/ WriteSave

\* ------------------------------------------------------------------------
\* __main__ of main.py: the worker pool. process_map hands every psalm to a
\* ProcessPoolExecutor and collects the results in order; a result that is an
\* exception is raised in the main process, which cancels the futures not yet
\* dispatched and waits for the dispatched ones
\* ------------------------------------------------------------------------

\* the psalms handed to the pool (range(1, 151) in the program)
MaxPsalm == 4

\* max_workers (cpu_count() in the program)
MaxWorkers == 2

PoolPsalms == 1..MaxPsalm

PoolIdle ==
    /\ failing = {}
    /\ futures = <<>>
    /\ printed = {}
    /\ pptx_files = {}
    /\ result_idx = 0
    /\ pool_pc = "idle"

PoolInit ==
    /\ failing \in SUBSET PoolPsalms
    /\ futures = <<>>
    /\ printed = {}
    /\ pptx_files = {}
    /\ result_idx = 0
    /\ pool_pc = "start"

\* process_map submits one future per psalm and starts to collect
PoolSubmit ==
    /\ pool_pc = "start"
    /\ futures' = [ps \in PoolPsalms |-> "pending"]
    /\ result_idx' = 1
    /\ pool_pc' = "map"
    /\ UNCHANGED <<failing, printed, pptx_files>>
    /\ UNCHANGED <<grabVars, stripVars, writeVars, pushVars>>

\* the pool dispatches the next pending psalm, in submission order
StartPsalm(ps) ==
    /\ pool_pc = "map"
    /\ futures[ps] = "pending"
    /\ \A q \in PoolPsalms : q < ps => futures[q] # "pending"
    /\ Cardinality({q \in PoolPsalms : futures[q] = "running"}) < MaxWorkers
    /\ futures' = [futures EXCEPT ![ps] = "running"]
    /\ UNCHANGED <<failing, printed, pptx_files, result_idx, pool_pc>>
    /\ UNCHANGED <<grabVars, stripVars, writeVars, pushVars>>

\* process_psalm runs to the end: write_psalm saved the file
FinishPsalm(ps) ==
    /\ pool_pc \in {"map", "raised"}
    /\ futures[ps] = "running"
    /\ ps \notin failing
    /\ futures' = [futures EXCEPT ![ps] = "done"]
    /\ pptx_files' = pptx_files \cup {ps}
    /\ UNCHANGED <<failing, printed, result_idx, pool_pc>>
    /\ UNCHANGED <<grabVars, stripVars, writeVars, pushVars>>

\* process_psalm catches an exception, prints the psalm number and raises it again
FailPsalm(ps) ==
    /\ pool_pc \in {"map", "raised"}
    /\ futures[ps] = "running"
    /\ ps \in failing
    /\ futures' = [futures EXCEPT ![ps] = "failed"]
    /\ printed' = printed \cup {ps}
    /\ UNCHANGED <<failing, pptx_files, result_idx, pool_pc>>
    /\ UNCHANGED <<grabVars, stripVars, writeVars, pushVars>>

\* the main process takes the next result
CollectResult ==
    /\ pool_pc = "map"
    /\ result_idx <= MaxPsalm
    /\ futures[result_idx] = "done"
    /\ result_idx' = result_idx + 1
    /\ UNCHANGED <<failing, futures, printed, pptx_files, pool_pc>>
    /\ UNCHANGED <<grabVars, stripVars, writeVars, pushVars>>

\* the next result is the exception process_psalm raised: it is raised in the
\* main process and the futures still pending are cancelled
CollectRaises ==
    /\ pool_pc = "map"
    /\ result_idx <= MaxPsalm
    /\ futures[result_idx] = "failed"
    /\ futures' = [ps \in PoolPsalms |->
                      IF futures[ps] = "pending" THEN "cancelled" ELSE futures[ps]]
    /\ pool_pc' = "raised"
    /\ UNCHANGED <<failing, printed, pptx_files, result_idx>>
    /\ UNCHANGED <<grabVars, stripVars, writeVars, pushVars>>

\* every result was collected: process_map returns
PoolReturn ==
    /\ pool_pc = "map"
    /\ result_idx > MaxPsalm
    /\ pool_pc' = "returned"
    /\ UNCHANGED <<failing, futures, printed, pptx_files, result_idx>>
    /\ UNCHANGED <<grabVars, stripVars, writeVars, pushVars>>

\* the pool has shut down (the dispatched psalms are over) and the exception
\* ends the program
PoolExit ==
    /\ pool_pc = "raised"
    /\ \A ps \in PoolPsalms : futures[ps] # "running"
    /\ pool_pc' = "exited"
    /\ UNCHANGED <<failing, futures, printed, pptx_files, result_idx>>
    /\ UNCHANGED <<grabVars, stripVars, writeVars, pushVars>>

PoolNext ==
    \/ PoolSubmit
    \/ \E ps \in PoolPsalms : StartPsalm(ps)
    \/ \E ps \in PoolPsalms : FinishPsalm(ps)
    \/ \E ps \in PoolPsalms : FailPsalm(ps)
    \/ CollectResult
    \/ CollectRaises
    \/ PoolReturn
    \/ PoolExit

\* ------------------------------------------------------------------------
\* push_psalm_files.py
\* ------------------------------------------------------------------------

\* number of files in the server's listing
MaxRemoteFiles == 3

Psalm001 == <<"P", "s", "a", "l", "m", "_", "0", "0", "1", ".", "p", "p", "t", "x">>

Psalm002 == <<"P", "s", "a", "l", "m", "_", "0", "0", "2", ".", "p", "p", "t", "x">>

Notes == <<"N", "o", "t", "e", "s", ".", "p", "p", "t", "x">>

FileNames == {Psalm001, Psalm002, Notes}

\* fnmatch.fnmatch(name, "Psalm_*.pptx")
fnmatch_psalm(name) ==
    /\ startswith(name, <<"P", "s", "a", "l", "m", "_">>)
    /\ endswith(name, <<".", "p", "p", "t", "x">>)
    /\ Len(name) >= 11

\* the characters of the file names in code point order
CodeOrder ==
    <<".", "0", "1", "2", "3", "4", "5", "6", "7", "8", "9", "N", "P", "_",
      "a", "e", "l", "m", "o", "p", "s", "t", "x">>

Code(c) == CHOOSE k \in 1..Len(CodeOrder) : CodeOrder[k] = c

\* a < b for strings
RECURSIVE NameLess(_, _)
NameLess(a, b) ==
    IF b = <<>> THEN FALSE
    ELSE IF a = <<>> THEN TRUE
    ELSE IF Head(a) = Head(b) THEN NameLess(Tail(a), Tail(b))
    ELSE Code(Head(a)) < Code(Head(b))

\* sorted(ids, key=name): a stable insertion of id into a sorted sequence
RECURSIVE InsertSorted(_, _, _)
InsertSorted(sorted, id, names) ==
    IF sorted = <<>> THEN <<id>>
    ELSE IF NameLess(names[id], names[Head(sorted)]) THEN <<id>> \o sorted
    ELSE <<Head(sorted)>> \o InsertSorted(Tail(sorted), id, names)

RECURSIVE SortedPsalmFiles(_, _)
SortedPsalmFiles(names, n) ==
    IF n = 0 THEN <<>>
    ELSE IF fnmatch_psalm(names[n])
         THEN InsertSorted(SortedPsalmFiles(names, n - 1), n, names)
         ELSE SortedPsalmFiles(names, n - 1)

\* what one HTTP exchange can give: a 2xx response, a 401, another error
\* status, or no response (requests.Timeout, requests.ConnectionError)
Responses == {"ok", "401", "error", "none"}

\* request_with_retry: "ok" when it returns, "HTTPError" when raise_for_status
\* raises, "RequestException" when session.request raises; the login it
\* retries after a 401 and the second response enter only then
request_with_retry(first, login, second) ==
    IF first = "none" THEN "RequestException"
    ELSE IF first = "401"
    THEN IF login = "none" THEN "RequestException"
         ELSE IF login # "ok" THEN "HTTPError"
         ELSE IF second = "none" THEN "RequestException"
         ELSE IF second = "ok" THEN "ok"
         ELSE "HTTPError"
    ELSE IF first = "ok" THEN "ok"
    ELSE "HTTPError"

\* some responses make request_with_retry return
Returns ==
    \E first \in Responses, login \in Responses, second \in Responses :
       request_with_retry(first, login, second) = "ok"

\* some responses make request_with_retry raise this exception
Raises(exception) ==
    \E first \in Responses, login \in Responses, second \in Responses :
       request_with_retry(first, login, second) = exception

PushIdle ==
    /\ files = <<>>
    /\ local_files = {}
    /\ psalm_files = <<>>
    /\ file_idx = 0
    /\ deleted = <<>>
    /\ delete_returned = {}
    /\ upload_calls = <<>>
    /\ uploaded = <<>>
    /\ push_pc = "idle"

PushInit ==
    /\ \E n \in 0..MaxRemoteFiles : files \in [1..n -> FileNames]
    /\ local_files \in SUBSET FileNames
    /\ psalm_files = <<>>
    /\ file_idx = 0
    /\ deleted = [id \in 1..Len(files) |-> 0]
    /\ delete_returned = {}
    /\ upload_calls = [id \in 1..Len(files) |-> 0]
    /\ uploaded = [id \in 1..Len(files) |-> 0]
    /\ push_pc = "start"

\* login_with_user_pw() and get_files() succeed: the psalm files are listed
PushListed ==
    /\ push_pc = "start"
    /\ psalm_files' = SortedPsalmFiles(files, Len(files))
    /\ file_idx' = 1
    /\ push_pc' = "loop"
    /\ UNCHANGED <<files, local_files, deleted, delete_returned, upload_calls,
                   uploaded>>
    /\ UNCHANGED <<grabVars, stripVars, writeVars, poolVars>>

\* login or listing raises requests.HTTPError: main prints it and returns
PushListingHttpError ==
    /\ push_pc = "start"
    /\ push_pc' = "returned"
    /\ UNCHANGED <<files, local_files, psalm_files, file_idx, deleted,
                   delete_returned, upload_calls, uploaded>>
    /\ UNCHANGED <<grabVars, stripVars, writeVars, poolVars>>

\* login or listing raises another exception: it leaves main
PushListingException ==
    /\ push_pc = "start"
    /\ push_pc' = "crashed"
    /\ UNCHANGED <<files, local_files, psalm_files, file_idx, deleted,
                   delete_returned, upload_calls, uploaded>>
    /\ UNCHANGED <<grabVars, stripVars, writeVars, poolVars>>

InLoop == push_pc = "loop" /\ file_idx <= Len(psalm_files)

\* one iteration: the local file does not exist
SkipMissing ==
    /\ InLoop
    /\ files[psalm_files[file_idx]] \notin local_files
    /\ file_idx' = file_idx + 1
    /\ UNCHANGED <<files, local_files, psalm_files, deleted, delete_returned,
                   upload_calls, uploaded, push_pc>>
    /\ UNCHANGED <<grabVars, stripVars, writeVars, poolVars>>

\* one iteration: delete_file raises requests.HTTPError
DeleteHttpError ==
    /\ InLoop
    /\ files[psalm_files[file_idx]] \in local_files
    /\ Raises("HTTPError")
    /\ file_idx' = file_idx + 1
    /\ UNCHANGED <<files, local_files, psalm_files, deleted, delete_returned,
                   upload_calls, uploaded, push_pc>>
    /\ UNCHANGED <<grabVars, stripVars, writeVars, poolVars>>

\* one iteration: the DELETE request raises an exception that is no HTTPError;
\* the server may have carried the request out before the response was lost
DeleteException ==
    /\ InLoop
    /\ files[psalm_files[file_idx]] \in local_files
    /\ Raises("RequestException")
    /\ \E served \in {0, 1} :
          deleted' = [deleted EXCEPT ![psalm_files[file_idx]] = @ + served]
    /\ push_pc' = "crashed"
    /\ UNCHANGED <<files, local_files, psalm_files, file_idx, delete_returned,
                   upload_calls, uploaded>>
    /\ UNCHANGED <<grabVars, stripVars, writeVars, poolVars>>

\* delete_file returned and upload_file is called
DeletedAndUploadCalled ==
    /\ InLoop
    /\ files[psalm_files[file_idx]] \in local_files
    /\ Returns
    /\ deleted' = [deleted EXCEPT ![psalm_files[file_idx]] = @ + 1]
    /\ delete_returned' = delete_returned \cup {psalm_files[file_idx]}
    /\ upload_calls' = [upload_calls EXCEPT ![psalm_files[file_idx]] = @ + 1]
    /\ UNCHANGED <<files, local_files, psalm_files>>
    /\ UNCHANGED <<grabVars, stripVars, writeVars, poolVars>>

\* one iteration: the file is deleted and uploaded
Uploaded ==
    /\ DeletedAndUploadCalled
    /\ Returns
    /\ uploaded' = [uploaded EXCEPT ![psalm_files[file_idx]] = @ + 1]
    /\ file_idx' = file_idx + 1
    /\ UNCHANGED push_pc

\* one iteration: the file is deleted, upload_file raises requests.HTTPError
UploadHttpError ==
    /\ DeletedAndUploadCalled
    /\ Raises("HTTPError")
    /\ file_idx' = file_idx + 1
    /\ UNCHANGED <<uploaded, push_pc>>

\* one iteration: the file is deleted, the POST request raises an exception
\* that is no HTTPError
UploadException ==
    /\ DeletedAndUploadCalled
    /\ Raises("RequestException")
    /\ \E served \in {0, 1} :
          uploaded' = [uploaded EXCEPT ![psalm_files[file_idx]] = @ + served]
    /\ push_pc' = "crashed"
    /\ UNCHANGED file_idx

\* the loop is over
PushReturn ==
    /\ push_pc = "loop"
    /\ file_idx > Len(psalm_files)
    /\ push_pc' = "returned"
    /\ UNCHANGED <<files, local_files, psalm_files, file_idx, deleted,
                   delete_returned, upload_calls, uploaded>>
    /\ UNCHANGED <<grabVars, stripVars, writeVars, poolVars>>

PushNext ==
    \/ PushListed
    \/ PushListingHttpError
    \/ PushListingException
    \/ SkipMissing
    \/ DeleteHttpError
    \/ DeleteException
    \/ Uploaded
    \/ UploadHttpError
    \/ UploadException
    \/ PushReturn

\* ------------------------------------------------------------------------
\* Specifications
\* ------------------------------------------------------------------------

InitGrab == GrabInit /\ StripIdle /\ WriteIdle /\ PoolIdle /\ PushIdle

SpecGrab == InitGrab /\ [][GrabNext]_vars

InitStrip == StripInit /\ GrabIdle /\ WriteIdle /\ PoolIdle /\ PushIdle

SpecStrip == InitStrip /\ [][StripNext]_vars

InitWrite == WriteInit /\ GrabIdle /\ StripIdle /\ PoolIdle /\ PushIdle

SpecWrite == InitWrite /\ [][WriteNext]_vars

InitPool == PoolInit /\ GrabIdle /\ StripIdle /\ WriteIdle /\ PushIdle

SpecPool == InitPool /\ [][PoolNext]_vars

InitPush == PushInit /\ GrabIdle /\ StripIdle /\ WriteIdle /\ PoolIdle

SpecPush == InitPush /\ [][PushNext]_vars

\* ------------------------------------------------------------------------
\* Properties of grab_psalm (SpecGrab)
\* ------------------------------------------------------------------------

\* a step of the verse loop
VerseStep == Len(verses') = Len(verses) + 1

\* the verse text as it reaches the psalm-purpose block
TextAtHeaderStep(ps, n, element_text, letter) ==
    FlattenParens(Ps119Step(ps, n, Preprocess(all_after_verse_number(element_text)),
                            letter).text)

\* C4: the header-search flag is true when the verse loop starts; once it is
\* false it stays false at every later verse, and a verse processed with the
\* flag false is always emitted, its brackets removed and nothing cut out of
\* its text by the psalm-purpose block.
HeaderFlagNeverReactivates ==
    [][/\ (grab_pc = "fetch" /\ grab_pc' = "loop") => search_for_verse_purpose'
       /\ (VerseStep /\ ~search_for_verse_purpose) =>
             /\ ~search_for_verse_purpose'
             /\ verse_objects' =
                  Append(verse_objects,
                         VerseLines(TextAtHeaderStep(psalm, Len(verses'),
                                                     verses'[Len(verses')], ps119_letter),
                                    verse_number_of(Len(verses'))))]_vars

\* C4 witness: after the flag was cleared, a verse that opens a bracket it never
\* closes (which the search would have skipped) has been emitted
HeaderFlagClearedThenBracket ==
    /\ Len(verses) >= 2
    /\ ~search_for_verse_purpose
    /\ verses[Len(verses)] = <<"[", "h">>
    /\ verse_objects # <<>>
    /\ verse_objects[Len(verse_objects)] =
          <<Superscript(verse_number_of(Len(verses))) \o <<" ", "h">>>>

\* C5: while the flag is true, a verse that opens with "[" and closes that
\* bracket loses only this first bracketed span, the flag is cleared, and what
\* remains is emitted as a verse unless nothing remains.
OnlyFirstBracketSpanRemoved ==
    [][(/\ VerseStep
        /\ search_for_verse_purpose
        /\ startswith(TextAtHeaderStep(psalm, Len(verses'), verses'[Len(verses')],
                                       ps119_letter), <<"[">>)
        /\ Contains(TextAtHeaderStep(psalm, Len(verses'), verses'[Len(verses')],
                                     ps119_letter), "]")) =>
         \E t \in {TextAtHeaderStep(psalm, Len(verses'), verses'[Len(verses')],
                                    ps119_letter)} :
           \E rest \in {strip(SubSeq(t, NextClose(t, 1) + 1, Len(t)))} :
              /\ ~search_for_verse_purpose'
              /\ verse_objects' =
                   IF rest = <<>> THEN verse_objects
                   ELSE Append(verse_objects,
                               VerseLines(rest, verse_number_of(Len(verses'))))]_vars

\* C7, the hebrew-letter block as claimed: a trailing "(X)" alone is removed and
\* X carried, otherwise the carry is cleared; the carried prefix stays
ClaimedPs119Step(verse_text, letter) ==
    LET t == WithCarriedLetter(verse_text, letter)
        match == FindTrailingLetter(t)
    IN IF match # <<>>
       THEN [text |-> strip(SubSeq(t, 1, Len(t) - Len(match[1]) - 2)),
             letter |-> <<match[1]>>]
       ELSE [text |-> t, letter |-> <<>>]

\* C7: in psalm 119, from the second verse on, a trailing "(X)" alone is removed
\* from the verse and carried to the next verse, which then starts with "(X) ";
\* without a trailing fragment the carry is cleared; a prefix prepended from the
\* carry is kept in the emitted verse.
AcrosticLetterCarriedOnce ==
    [][(VerseStep /\ psalm = 119 /\ Len(verses') # 1) =>
         \E c \in {ClaimedPs119Step(Preprocess(all_after_verse_number(verses'[Len(verses')])),
                                    ps119_letter)} :
           \E h \in {HeaderStep(FlattenParens(c.text), search_for_verse_purpose)} :
              /\ ps119_letter' = c.letter
              /\ verse_objects' =
                   IF h.skip THEN verse_objects
                   ELSE Append(verse_objects,
                               VerseLines(h.text, verse_number_of(Len(verses'))))]_vars

\* C9: once a verse of the psalm has been emitted, every later verse is
\* emitted too.
SkippedVersesFormPrefix ==
    [][(VerseStep /\ verse_objects # <<>>) =>
          Len(verse_objects') = Len(verse_objects) + 1]_vars

\* ------------------------------------------------------------------------
\* Properties of the preprocessing loop (SpecStrip)
\* ------------------------------------------------------------------------

IsPrefix(s, t) == Len(s) <= Len(t) /\ SubSeq(t, 1, Len(s)) = s

\* C8: the preprocessing passes only ever remove a suffix of the verse text:
\* after every pass the text is a prefix of the text the loop started with.
StrippingRemovesOnlySuffix == IsPrefix(verse_text_raw, stripped_text)

\* ------------------------------------------------------------------------
\* Properties of write_psalm (SpecWrite)
\* ------------------------------------------------------------------------

\* the display lines of a run of paragraph elements: the texts of the runs
\* between soft line breaks; the italic closing run is no verse line
RECURSIVE ElementLines(_, _, _)
ElementLines(elements, k, cur) ==
    IF k > Len(elements) THEN <<cur>>
    ELSE IF elements[k].kind = "br" THEN <<cur>> \o ElementLines(elements, k + 1, <<>>)
    ELSE IF elements[k].italic THEN ElementLines(elements, k + 1, cur)
    ELSE ElementLines(elements, k + 1, cur \o elements[k].text)

ParagraphLines(paragraph) ==
    IF paragraph.elements = <<>> THEN <<>>
    ELSE ElementLines(paragraph.elements, 1, <<>>)

\* the written paragraphs, slide by slide and paragraph by paragraph, each with
\* its display lines and the index of its slide counted from 0
RECURSIVE WrittenFrom(_, _, _)
WrittenFrom(slides, s, k) ==
    IF s > Len(slides) THEN <<>>
    ELSE IF k > Len(slides[s].paragraphs) THEN WrittenFrom(slides, s + 1, 1)
    ELSE (IF slides[s].paragraphs[k].elements = <<>> THEN <<>>
          ELSE <<[lines |-> ParagraphLines(slides[s].paragraphs[k]),
                  slide_index |-> s - 1]>>)
         \o WrittenFrom(slides, s, k + 1)

Written == WrittenFrom(prs.slides, 1, 1)

Writing == write_pc \in {"loop", "saved"}

\* C1: read slide by slide and paragraph by paragraph, the display lines
\* written so far are exactly the lines of the verses written so far, verse by
\* verse and line by line: none dropped, duplicated, reordered or merged.
WrittenLinesAreVerseLines ==
    Writing =>
       /\ Len(Written) = loop_i
       /\ \A k \in 1..loop_i : Written[k].lines = pw.verses[k]

\* C1 witness: a saved psalm of three verses or more, one of them of several
\* lines, on two slides or more, one slide holding several verses
SavedOverSeveralSlides ==
    /\ write_pc = "saved"
    /\ Len(pw.verses) >= 3
    /\ \E k \in 1..Len(pw.verses) : Len(pw.verses[k]) >= 2
    /\ Len(prs.slides) >= 2
    /\ \E s \in 1..Len(prs.slides) : Len(prs.slides[s].paragraphs) >= 2

\* C2: the first verse is placed on slide 0 and the slide index of successive
\* verses never decreases and grows by 1 exactly where a verse starts a slide,
\* by 0 elsewhere.
FirstVerseOnSlideZeroAndMonotone ==
    Writing =>
       /\ Written # <<>> => Written[1].slide_index = 0
       /\ \A k \in 1..(Len(Written) - 1) :
             Written[k + 1].slide_index \in
                {Written[k].slide_index, Written[k].slide_index + 1}

\* line_unit of the height model, in units of 1/UnitsPerInch inch
LineUnit(font_size_pt, spacing_factor100, after_pt) ==
    (font_size_pt * spacing_factor100 + after_pt * 100) * 133

\* verse_height of the height model
ClaimedVerseHeight(w, lines) ==
    (Len(lines) + Cardinality({k \in 1..Len(lines) : Len(lines[k]) > w.warp}) - 1)
        * LineUnit(w.body_font_size, w.line_spacing_factor100, 0)
    + LineUnit(w.body_font_size, 100, w.space_after)

\* the placement of a verse after the first, decided with offset as the height
\* taken above the text: a new slide exactly when it overflows, the accumulated
\* height reset to the verse's height then and grown by it otherwise
PlacementDecidedWith(offset) ==
    (write_pc = "loop" /\ loop_i' = loop_i + 1 /\ loop_i >= 1) =>
       \E vh \in {ClaimedVerseHeight(pw, pw.verses[loop_i + 1])} :
       \E over \in {offset + pw.current_text_body_height + vh > pw.height_inch} :
          /\ Len(prs'.slides) = Len(prs.slides) + (IF over THEN 1 ELSE 0)
          /\ slide' = IF over THEN slide + 1 ELSE slide
          /\ pw'.current_text_body_height =
                IF over THEN vh ELSE pw.current_text_body_height + vh

\* C3 as claimed: only top_margin, the accumulated height, the verse height and
\* the slide height enter the decision.
PlacementIgnoresBodyTop == [][PlacementDecidedWith(top_margin)]_vars

\* C3 amended: the top of the current slide's body placeholder enters the
\* decision too: a new slide is started exactly when
\* body_top + top_margin + accumulated_height + verse_height > slide_height.
PlacementCountsBodyTop ==
    [][PlacementDecidedWith(BodyTop(prs, slide) + top_margin)]_vars

\* C3 witness: with a body placeholder that starts below the slide's top, a
\* verse was attached to a slide and a later one started a new slide
AttachedThenNewSlideBelowTop ==
    /\ write_pc = "loop"
    /\ loop_i >= 3
    /\ prs.title_body_top > 0
    /\ prs.body_top > 0
    /\ Len(prs.slides) >= 2
    /\ Len(prs.slides[1].paragraphs) >= 2

\* ------------------------------------------------------------------------
\* Properties of the worker pool (SpecPool)
\* ------------------------------------------------------------------------

\* C6: when the run is over, every failing psalm has been reported with its
\* number and every other psalm has been processed to the end and has its file.
FailureStopsNoOtherPsalm ==
    pool_pc \in {"returned", "exited"} =>
       /\ \A ps \in failing : futures[ps] = "failed" => ps \in printed
       /\ \A ps \in PoolPsalms \ failing : futures[ps] = "done" /\ ps \in pptx_files

\* ------------------------------------------------------------------------
\* Properties of the upload loop (SpecPush)
\* ------------------------------------------------------------------------

\* C10: a remote psalm file is deleted only if the local file exists; its upload
\* is attempted only after its delete returned; each file is deleted and
\* uploaded at most once; and once the loop was entered, the run ends only
\* after every listed psalm file was handled.
UploadLoopHandlesEveryFile ==
    /\ \A id \in 1..Len(files) :
          /\ deleted[id] > 0 => files[id] \in local_files /\ fnmatch_psalm(files[id])
          /\ upload_calls[id] > 0 => id \in delete_returned
          /\ deleted[id] <= 1
          /\ upload_calls[id] <= 1
          /\ uploaded[id] <= 1
    /\ (push_pc \in {"returned", "crashed"} /\ file_idx >= 1) =>
          file_idx > Len(psalm_files)

====
